---- MODULE Spec2Model ----
(***************************************************************************)
(* Log projection of augur-node: the log processors for OrderCanceled,     *)
(* CompleteSetsPurchased/Sold, InitialReporterRedeemed and the             *)
(* DisputeCrowdsourcer events, each with its removal (reorg) counterpart,  *)
(* run one log at a time inside a transaction opened by the caller.        *)
(* Every database call a handler awaits is one step of the handler.        *)
(***************************************************************************)
EXTENDS Integers, Sequences, FiniteSets, TLC

(* ------------------------------ bounds -------------------------------- *)

\* the first transaction holds logs 0..MaxLogIndex, the second a single log
MaxLogIndex == 0

\* on-chain amounts are 1..MaxAmountUnits units of 5
MaxAmountUnits == 2

TxHashes == {"tA", "tB"}

LogIndexes == 0 .. MaxLogIndex

\* (transactionHash, logIndex): the identity of a log
Identities == {id \in TxHashes \X LogIndexes : id[1] = "tA" \/ id[2] = 0}

\* the block a transaction was mined in
BlockNumberOf(tx) ==
  CASE tx = "tCreate" -> 1 [] tx = "tA" -> 2 [] tx = "tB" -> 3 [] OTHER -> 4

(* ------------------------------ orders -------------------------------- *)

\* OrderState of src/types (imported at order-canceled.ts:3)
OrderState == [OPEN |-> "OPEN", FILLED |-> "FILLED", CANCELED |-> "CANCELED"]

\* order ids a log may name; "o2" has no row in the orders table
OrderIds == {"o1", "o2"}

ExistingOrders == {"o1"}

\* the columns of an orders row that the handlers read (order-canceled.ts:7-12)
OrdersRowOf(o, s) == [orderId |-> o, orderState |-> s, marketId |-> "m1", outcome |-> 1, price |-> 5]

\* FormattedEventLog of an OrderCanceled event: the fields the handlers use
OrderCanceledLogs ==
  { [orderId |-> o, orderType |-> t, transactionHash |-> id[1], logIndex |-> id[2],
     blockNumber |-> BlockNumberOf(id[1])] :
       o \in OrderIds, t \in {"0", "1"}, id \in Identities }

(* ------------------------------ markets ------------------------------- *)

\* markets a log may name; "m2" has no row in the markets table
MarketIds == {"m1", "m2"}

\* the markets table: the columns processCompleteSetsPurchasedOrSoldLog reads
MarketsRows == [m1 |-> [marketId |-> "m1", minPrice |-> 0, maxPrice |-> 20, numTicks |-> 10]]

\* raw on-chain amounts a complete-sets log may carry
OnChainAmounts == {5 * k : k \in 1 .. MaxAmountUnits}

\* SubscriptionEventNames of src/constants: each event name maps to its tag
SubscriptionEventNames ==
  [CompleteSetsPurchased |-> "CompleteSetsPurchased", CompleteSetsSold |-> "CompleteSetsSold",
   OrderCanceled |-> "OrderCanceled", InitialReporterRedeemed |-> "InitialReporterRedeemed"]

CompleteSetsLogs ==
  { [market |-> mn[1], account |-> "a1", numCompleteSets |-> mn[2], tradeGroupId |-> "g1",
     universe |-> "u1", eventName |-> IF id[1] = "tA" THEN "CompleteSetsPurchased" ELSE "CompleteSetsSold",
     transactionHash |-> id[1], logIndex |-> id[2], blockNumber |-> BlockNumberOf(id[1])] :
       mn \in {x \in MarketIds \X OnChainAmounts : x[1] \in DOMAIN MarketsRows \/ x[2] = 5},
       id \in Identities }

InitialReporterRedeemedLogs ==
  { [market |-> m, reporter |-> "r1", transactionHash |-> id[1], logIndex |-> id[2],
     blockNumber |-> BlockNumberOf(id[1])] :
       m \in MarketIds, id \in Identities }

(* ------------------------------ disputes ------------------------------ *)

CrowdsourcerIds == {"c1", "c2"}

\* the payoutID the handler holds when insertPayout called back without one
Undefined == 0

\* a crowdsourcer is created in an early block, contributed to in the blocks of
\* TxHashes and completed in a later one
DisputeCrowdsourcerCreatedLogs ==
  { [market |-> "m1", payoutNumerators |-> <<0, 10>>, invalid |-> inv,
     disputeCrowdsourcer |-> c, size |-> 4, transactionHash |-> "tCreate", logIndex |-> 0,
     blockNumber |-> BlockNumberOf("tCreate")] :
       inv \in BOOLEAN, c \in CrowdsourcerIds }

DisputeCrowdsourcerContributionLogs ==
  { [reporter |-> "r1", disputeCrowdsourcer |-> "c1", amountStaked |-> 2,
     transactionHash |-> id[1], logIndex |-> id[2], blockNumber |-> BlockNumberOf(id[1])] :
       id \in Identities }

DisputeCrowdsourcerCompletedLogs ==
  { [universe |-> "u1", market |-> "m1", disputeCrowdsourcer |-> c,
     transactionHash |-> "tComplete", logIndex |-> 0, blockNumber |-> BlockNumberOf("tComplete")] :
       c \in CrowdsourcerIds }

(* --------------------------- node health ------------------------------ *)

\* calls of monitorEthereumNodeHealth in one run of the process
MaxMonitorCalls == 2

\* getController calls of one interval that are awaiting their reply
MaxInFlight == 2

\* the interval the k-th call of monitorEthereumNodeHealth creates is timer k
MonitorIds == 1..MaxMonitorCalls

\* monitorEthereumNodeHealthId before the first call: declared, not assigned
NoTimer == 0

\* augur.contracts.addresses[networkId].Controller
Controller == "controller"

\* what a getController reply can carry as universeController
UniverseControllers == {Controller, "otherController", "undefined"}

(* ------------------------- trading positions --------------------------- *)

\* outcomes of a market: 2..MaxOutcomes
MaxOutcomes == 4

\* a position, in shares: 0..MaxPosition
MaxPosition == 2

\* ZERO of src/constants
ZERO == 0

\* params.outcome when the caller gives none (null or undefined)
NoOutcome == 0 - 1

\* the BigNumber that is not a number: BigNumber.minimum() of no arguments
NaN == 0 - 1000

MarketTypes == {"categorical", "yesNo"}

\* the last ProfitLossResult of one outcome, as getAllOutcomesProfitLoss returns it
ProfitLossResults ==
  [outcome : 0..(MaxOutcomes - 1), position : 0..MaxPosition, numEscrowed : 0..1]

(* ------------------------------ state --------------------------------- *)

VARIABLES
  store,      \* the tables, as seen inside the open transaction
  snapshot,   \* the tables when the current log's transaction began
  phase,      \* "idle" | "running" | "returned": the engine's position for the current log
  cur,        \* the log being processed: [handler, dir, log]
  pc,         \* number of awaited database calls the running handler has completed
  result,     \* "none" | "ok" | "Error" | "StoreError": how the handler ended
  emitted,    \* events augurEmitter published while the current log was processed
  local,      \* the running handler's local variables (payoutID)
  pending,    \* markets whose updateOpenInterest call was started and not awaited
  prev        \* the processing just before the current one, when it was of the same log:
              \* [cur, result, pre, emitted], pre being the tables before it began

\* src/blockchain/monitor-ethereum-node-health.ts
VARIABLES
  monitorEthereumNodeHealthId,  \* the module-level timer id: NoTimer or the latest timer
  intervals,                    \* the timers that were set and not cleared
  errorCallbacks,               \* per timer, the errorCallback its closure holds:
                                \* "unset" (timer not created) | "function" | "undefined"
  getControllerCalls,           \* per timer, the getController calls awaiting their reply
  errorCallbackCalls            \* per timer, how often its errorCallback was invoked

\* getUserTradingPositions, for one account and one market
VARIABLES
  params,               \* [outcome]: the outcome asked for, or NoOutcome
  profitsPerMarket,     \* the last ProfitLossResult of every outcome the account
                        \* has a row for, in the order of the keys
  numOutcomesByMarket,  \* the market's number of outcomes
  marketTypesByMarket,  \* the market's type
  positions,            \* the array the getter returned
  returned              \* whether the getter has returned

positionVars ==
  <<params, profitsPerMarket, numOutcomesByMarket, marketTypesByMarket, positions, returned>>

monitorVars ==
  <<monitorEthereumNodeHealthId, intervals, errorCallbacks, getControllerCalls, errorCallbackCalls>>

projectionVars == <<store, snapshot, phase, cur, pc, result, emitted, local, pending, prev>>

\* the state the log processors never touch
outside == <<monitorVars, positionVars>>

vars == <<projectionVars, outside>>

NoLog == [handler |-> "none", dir |-> "none", log |-> [transactionHash |-> "none", logIndex |-> 0]]

NoPrev == [cur |-> NoLog, result |-> "none", pre |-> {}, emitted |-> <<>>]

InitStores ==
  { [ orders          |-> [o \in ExistingOrders |-> OrdersRowOf(o, s)],
      orders_canceled |-> {},
      completeSets    |-> {},
      openInterest    |-> [m \in DOMAIN MarketsRows |-> 0],
      initial_reports |-> [m \in MarketIds |-> FALSE],
      payouts         |-> {},
      crowdsourcers   |-> {},
      disputes        |-> {} ] :
    s \in {OrderState.OPEN, OrderState.FILLED} }

\* no call of monitorEthereumNodeHealth yet
MonitorInit ==
  /\ monitorEthereumNodeHealthId = NoTimer
  /\ intervals = {}
  /\ errorCallbacks = [k \in MonitorIds |-> "unset"]
  /\ getControllerCalls = [k \in MonitorIds |-> 0]
  /\ errorCallbackCalls = [k \in MonitorIds |-> 0]

InitProjection ==
  /\ store \in InitStores
  /\ snapshot = store
  /\ phase = "idle"
  /\ cur = NoLog
  /\ pc = 0
  /\ result = "none"
  /\ emitted = <<>>
  /\ local = Undefined
  /\ pending = {}
  /\ prev = NoPrev

\* no query is being answered
NoQuery ==
  /\ params = [outcome |-> NoOutcome]
  /\ profitsPerMarket = <<>>
  /\ numOutcomesByMarket = 2
  /\ marketTypesByMarket = "yesNo"
  /\ positions = <<>>
  /\ returned = FALSE

Init == InitProjection /\ MonitorInit /\ NoQuery

\* the initial state for the handlers that never touch the orders table
InitOrdersOpen == Init /\ \A o \in DOMAIN store.orders : store.orders[o].orderState = OrderState.OPEN

(* ------------------------- database primitives ------------------------ *)

\* db.from(table).where(col, v).update(patch): every matching row is patched;
\* no matching row is not an error
UpdateOrderState(orders, orderId, s) ==
  [o \in DOMAIN orders |->
     IF orders[o].orderId = orderId THEN [orders[o] EXCEPT !.orderState = s] ELSE orders[o]]

\* db.first(...).from("orders").where("orderId", id): the row or undefined
FirstOrder(orders, orderId) ==
  IF orderId \in DOMAIN orders
    THEN {[marketId |-> orders[orderId].marketId, outcome |-> orders[orderId].outcome,
           price |-> orders[orderId].price]}
    ELSE {}

\* Object.assign({}, a, b): b's fields override a's
ObjectAssign(a, b) ==
  [k \in DOMAIN a \cup DOMAIN b |-> IF k \in DOMAIN b THEN b[k] ELSE a[k]]

(* ------------------------------ engine -------------------------------- *)

\* the caller opens a transaction for one log and invokes its handler
Begin(h, d, l) ==
  /\ phase = "idle"
  /\ phase' = "running"
  /\ cur' = [handler |-> h, dir |-> d, log |-> l]
  /\ pc' = 0
  /\ snapshot' = store
  /\ result' = "none"
  /\ emitted' = <<>>
  /\ local' = Undefined
  /\ prev' = IF cur.handler = h /\ cur.log = l
              THEN [cur |-> cur, result |-> result, pre |-> snapshot, emitted |-> emitted]
              ELSE NoPrev
  /\ UNCHANGED <<outside, store, pending>>

\* the handler returned normally: the transaction commits
Commit ==
  /\ phase = "returned"
  /\ result = "ok"
  /\ phase' = "idle"
  /\ UNCHANGED <<outside, store, snapshot, cur, pc, result, emitted, local, pending, prev>>

\* the handler threw or called back with an error: the transaction rolls back
Abort ==
  /\ phase = "returned"
  /\ result # "ok"
  /\ phase' = "idle"
  /\ store' = snapshot
  /\ UNCHANGED <<outside, snapshot, cur, pc, result, emitted, local, pending, prev>>

Running(h, d, k) ==
  /\ phase = "running"
  /\ cur.handler = h
  /\ cur.dir = d
  /\ pc = k

\* an awaited database call rejects: the handler throws out of its await
Throw(err) ==
  /\ phase' = "returned"
  /\ result' = err
  /\ UNCHANGED <<outside, store, snapshot, cur, pc, emitted, local, pending, prev>>

(* --------------------------- order-canceled ---------------------------- *)

\* a slip in the label: the comparison taken the other way round
OrderTypeLabelSwapped(log) == IF log.orderType = "0" THEN "sell" ELSE "buy"

\* lines 15 / 24
OrderTypeLabel(log) == IF log.orderType = "0" THEN "buy" ELSE "sell"

\* lines 18-20 / 27-29: read the order back, label it, publish log + row
OrderCanceledEvent(orders, log) ==
  LET rows == FirstOrder(orders, log.orderId)
  IN  [name |-> SubscriptionEventNames.OrderCanceled,
       payload |-> IF rows = {} THEN log
                   ELSE ObjectAssign(log, ObjectAssign(CHOOSE r \in rows : TRUE,
                                                       [orderType |-> OrderTypeLabel(log)]))]

CanceledRow(log) ==
  [orderId |-> log.orderId, transactionHash |-> log.transactionHash,
   logIndex |-> log.logIndex, blockNumber |-> log.blockNumber]

\* orders_canceled is keyed by orderId: a second row for the same order is refused
CanInsertCanceled(rows, row) == \A r \in rows : r.orderId # row.orderId

processOrderCanceledLog ==
  \/ /\ Running("OrderCanceled", "Forward", 0)
     /\ \/ /\ store' = [store EXCEPT !.orders = UpdateOrderState(@, cur.log.orderId, OrderState.CANCELED)]
           /\ pc' = 1
           /\ UNCHANGED <<outside, snapshot, phase, cur, result, emitted, local, pending, prev>>
        \/ Throw("StoreError")
  \/ /\ Running("OrderCanceled", "Forward", 1)
     /\ \/ /\ CanInsertCanceled(store.orders_canceled, CanceledRow(cur.log))
           /\ store' = [store EXCEPT !.orders_canceled = @ \cup {CanceledRow(cur.log)}]
           /\ pc' = 2
           /\ UNCHANGED <<outside, snapshot, phase, cur, result, emitted, local, pending, prev>>
        \/ Throw("StoreError")
  \/ /\ Running("OrderCanceled", "Forward", 2)
     /\ emitted' = Append(emitted, OrderCanceledEvent(store.orders, cur.log))
     /\ phase' = "returned"
     /\ result' = "ok"
     /\ UNCHANGED <<outside, store, snapshot, cur, pc, local, pending, prev>>

processOrderCanceledLogRemoval ==
  \/ /\ Running("OrderCanceled", "Removal", 0)
     /\ \/ /\ store' = [store EXCEPT !.orders = UpdateOrderState(@, cur.log.orderId, OrderState.OPEN)]
           /\ pc' = 1
           /\ UNCHANGED <<outside, snapshot, phase, cur, result, emitted, local, pending, prev>>
        \/ Throw("StoreError")
  \/ /\ Running("OrderCanceled", "Removal", 1)
     /\ \/ /\ store' = [store EXCEPT !.orders_canceled = {r \in @ : r.orderId # cur.log.orderId}]
           /\ pc' = 2
           /\ UNCHANGED <<outside, snapshot, phase, cur, result, emitted, local, pending, prev>>
        \/ Throw("StoreError")
  \/ /\ Running("OrderCanceled", "Removal", 2)
     /\ emitted' = Append(emitted, OrderCanceledEvent(store.orders, cur.log))
     /\ phase' = "returned"
     /\ result' = "ok"
     /\ UNCHANGED <<outside, store, snapshot, cur, pc, local, pending, prev>>

(* ------------------------ complete sets purchased/sold ----------------- *)

\* a market read that falls back to a default row when the market is unknown
FirstMarketOrDefault(marketId) ==
  IF marketId \in DOMAIN MarketsRows
    THEN {MarketsRows[marketId]}
    ELSE {[minPrice |-> 0, maxPrice |-> 10, numTicks |-> 10]}

\* db.first("minPrice", "maxPrice", "numTicks").from("markets").where({ marketId })
FirstMarket(marketId) ==
  IF marketId \in DOMAIN MarketsRows THEN {MarketsRows[marketId]} ELSE {}

\* numTicksToTickSize: (maxPrice - minPrice) / numTicks
numTicksToTickSize(numTicks, minPrice, maxPrice) == (maxPrice - minPrice) \div numTicks

\* augur.utils.convertOnChainAmountToDisplayAmount: the on-chain amount times the
\* tick size over the fixed-point unit (10^18 on chain, 10 here)
convertOnChainAmountToDisplayAmount(onChainAmount, tickSize) == (onChainAmount * tickSize) \div 10

\* lines 15-31: the row built from the log and the market's tick size
CompleteSetsRowOf(log, marketsRow) ==
  LET tickSize == numTicksToTickSize(marketsRow.numTicks, marketsRow.minPrice, marketsRow.maxPrice)
      numCompleteSets == convertOnChainAmountToDisplayAmount(log.numCompleteSets, tickSize)
  IN  [marketId |-> log.market, account |-> log.account, blockNumber |-> log.blockNumber,
       universe |-> log.universe, eventName |-> log.eventName,
       transactionHash |-> log.transactionHash, logIndex |-> log.logIndex,
       tradeGroupId |-> log.tradeGroupId, numCompleteSets |-> numCompleteSets,
       numPurchasedOrSold |-> numCompleteSets]

\* completeSets is keyed by (transactionHash, logIndex)
CanInsertByLogKey(rows, row) ==
  \A r \in rows : ~(r.transactionHash = row.transactionHash /\ r.logIndex = row.logIndex)

\* a deletion that matches on the log index alone
DeleteByLogIndex(rows, log) == {r \in rows : r.logIndex # log.logIndex}

\* .where({ transactionHash, logIndex }).del()
DeleteByLogKey(rows, log) ==
  {r \in rows : ~(r.transactionHash = log.transactionHash /\ r.logIndex = log.logIndex)}

RECURSIVE SumCompleteSets(_)
SumCompleteSets(rows) ==
  IF rows = {} THEN 0
  ELSE LET r == CHOOSE x \in rows : TRUE
       IN  r.numCompleteSets + SumCompleteSets(rows \ {r})

\* the open interest of a market computed from scratch from its completeSets rows
OpenInterestOf(st, marketId) ==
  SumCompleteSets({r \in st.completeSets : r.marketId = marketId})

\* updateOpenInterest(db, marketId): recompute the market's aggregate and store it
updateOpenInterest(st, marketId) ==
  IF marketId \in DOMAIN st.openInterest
    THEN [st EXCEPT !.openInterest[marketId] = OpenInterestOf(st, marketId)]
    ELSE st

processCompleteSetsPurchasedOrSoldLog ==
  \/ /\ Running("CompleteSets", "Forward", 0)
     /\ IF FirstMarket(cur.log.market) = {}
          THEN Throw("Error")
          ELSE /\ pc' = 1
               /\ UNCHANGED <<outside, store, snapshot, phase, cur, result, emitted, local, pending, prev>>
  \/ /\ Running("CompleteSets", "Forward", 1)
     /\ LET row == CompleteSetsRowOf(cur.log, CHOOSE m \in FirstMarket(cur.log.market) : TRUE)
        IN  \/ /\ CanInsertByLogKey(store.completeSets, row)
               /\ store' = [store EXCEPT !.completeSets = @ \cup {row}]
               /\ emitted' = Append(emitted, [name |-> SubscriptionEventNames[cur.log.eventName],
                                              payload |-> row])
               /\ pending' = pending \cup {cur.log.market}
               /\ phase' = "returned"
               /\ result' = "ok"
               /\ UNCHANGED <<outside, snapshot, cur, pc, local, prev>>
            \/ Throw("StoreError")

processCompleteSetsPurchasedOrSoldLogRemoval ==
  \/ /\ Running("CompleteSets", "Removal", 0)
     /\ \/ /\ store' = [store EXCEPT !.completeSets = DeleteByLogKey(@, cur.log)]
           /\ emitted' = Append(emitted, [name |-> SubscriptionEventNames[cur.log.eventName],
                                          payload |-> cur.log])
           /\ pc' = 1
           /\ UNCHANGED <<outside, snapshot, phase, cur, result, local, pending, prev>>
        \/ Throw("StoreError")
  \/ /\ Running("CompleteSets", "Removal", 1)
     /\ \/ /\ store' = updateOpenInterest(store, cur.log.market)
           /\ phase' = "returned"
           /\ result' = "ok"
           /\ UNCHANGED <<outside, snapshot, cur, pc, emitted, local, pending, prev>>
        \/ Throw("StoreError")

\* the recomputation the forward handler started without awaiting it settles
\* after the handler has returned, between two logs: it stores the aggregate, or
\* it rejects with nobody listening
updateOpenInterestUnawaited ==
  \E m \in pending :
    /\ phase = "idle"
    /\ pending' = pending \ {m}
    /\ \/ store' = updateOpenInterest(store, m)
       \/ UNCHANGED store
    /\ UNCHANGED <<outside, snapshot, phase, cur, pc, result, emitted, local, prev>>

(* ------------------------- initial report redeemed --------------------- *)

\* an update without its where clause: every row is written
UpdateRedeemedAllRows(reports, marketId, v) == [m \in DOMAIN reports |-> v]

\* db.from("initial_reports").where("marketId", m).update({ redeemed: v })
UpdateRedeemed(reports, marketId, v) ==
  [m \in DOMAIN reports |-> IF m = marketId THEN v ELSE reports[m]]

processInitialReporterRedeemedLog ==
  /\ Running("InitialReporterRedeemed", "Forward", 0)
  /\ \/ /\ store' = [store EXCEPT !.initial_reports = UpdateRedeemed(@, cur.log.market, TRUE)]
        /\ emitted' = Append(emitted, [name |-> SubscriptionEventNames.InitialReporterRedeemed,
                                       payload |-> cur.log])
        /\ phase' = "returned"
        /\ result' = "ok"
        /\ UNCHANGED <<outside, snapshot, cur, pc, local, pending, prev>>
     \/ Throw("StoreError")

processInitialReporterRedeemedLogRemoval ==
  /\ Running("InitialReporterRedeemed", "Removal", 0)
  /\ \/ /\ store' = [store EXCEPT !.initial_reports = UpdateRedeemed(@, cur.log.market, FALSE)]
        /\ emitted' = Append(emitted, [name |-> SubscriptionEventNames.InitialReporterRedeemed,
                                       payload |-> cur.log])
        /\ phase' = "returned"
        /\ result' = "ok"
        /\ UNCHANGED <<outside, snapshot, cur, pc, local, pending, prev>>
     \/ Throw("StoreError")

(* ------------------------- dispute crowdsourcers ----------------------- *)

\* the payout row for (market, payoutNumerators, invalid), if there is one
FindPayout(payouts, log) ==
  {p \in payouts : p.marketId = log.market /\ p.payoutNumerators = log.payoutNumerators
                   /\ p.invalid = log.invalid}

\* insertPayout(db, trx, market, payoutNumerators, invalid, callback): find the payout
\* row or create it; the result is [payouts, payoutID]
insertPayout(payouts, log) ==
  IF FindPayout(payouts, log) # {}
    THEN [payouts |-> payouts, payoutID |-> (CHOOSE p \in FindPayout(payouts, log) : TRUE).payoutId]
    ELSE [payouts |-> payouts \cup {[payoutId |-> Cardinality(payouts) + 1, marketId |-> log.market,
                                     payoutNumerators |-> log.payoutNumerators,
                                     invalid |-> log.invalid]},
          payoutID |-> Cardinality(payouts) + 1]

\* lines 55-63
CrowdsourcerToInsert(log, payoutID) ==
  [blockNumber |-> log.blockNumber, transactionHash |-> log.transactionHash,
   logIndex |-> log.logIndex, crowdsourcerID |-> log.disputeCrowdsourcer,
   marketID |-> log.market, size |-> log.size, payoutID |-> payoutID, completed |-> 0]

\* crowdsourcers is keyed by crowdsourcerID
CanInsertCrowdsourcer(rows, row) == \A r \in rows : r.crowdsourcerID # row.crowdsourcerID

\* lines 81-88
DisputeToInsert(log) ==
  [blockNumber |-> log.blockNumber, transactionHash |-> log.transactionHash,
   logIndex |-> log.logIndex, reporter |-> log.reporter,
   crowdsourcerID |-> log.disputeCrowdsourcer, amountStaked |-> log.amountStaked]

\* update({completed: v}).where({crowdsourcerID})
UpdateCompleted(rows, crowdsourcerID, v) ==
  {IF r.crowdsourcerID = crowdsourcerID THEN [r EXCEPT !.completed = v] ELSE r : r \in rows}

\* the callback of an awaited call: emit and callback(null)
EmitAndReturn(name) ==
  /\ emitted' = Append(emitted, [name |-> name, payload |-> cur.log])
  /\ phase' = "returned"
  /\ result' = "ok"

processDisputeCrowdsourcerCreatedLog ==
  \/ /\ Running("DisputeCrowdsourcerCreated", "Forward", 0)
     /\ \/ /\ store' = [store EXCEPT !.payouts = insertPayout(@, cur.log).payouts]
           /\ local' = insertPayout(store.payouts, cur.log).payoutID
        \/ /\ local' = Undefined
           /\ UNCHANGED store
     /\ pc' = 1
     /\ UNCHANGED <<outside, snapshot, phase, cur, result, emitted, pending, prev>>
  \/ /\ Running("DisputeCrowdsourcerCreated", "Forward", 1)
     /\ \/ /\ CanInsertCrowdsourcer(store.crowdsourcers, CrowdsourcerToInsert(cur.log, local))
           /\ store' = [store EXCEPT !.crowdsourcers = @ \cup {CrowdsourcerToInsert(cur.log, local)}]
           /\ EmitAndReturn("DisputeCrowdsourcerCreated")
           /\ UNCHANGED <<outside, snapshot, cur, pc, local, pending, prev>>
        \/ Throw("StoreError")

processDisputeCrowdsourcerCreatedLogRemoval ==
  /\ Running("DisputeCrowdsourcerCreated", "Removal", 0)
  /\ \/ /\ store' = [store EXCEPT !.crowdsourcers =
                       {r \in @ : r.crowdsourcerID # cur.log.disputeCrowdsourcer}]
        /\ EmitAndReturn("DisputeCrowdsourcerCreated")
        /\ UNCHANGED <<outside, snapshot, cur, pc, local, pending, prev>>
     \/ Throw("StoreError")

processDisputeCrowdsourcerContributionLog ==
  /\ Running("DisputeCrowdsourcerContribution", "Forward", 0)
  /\ \/ /\ CanInsertByLogKey(store.disputes, DisputeToInsert(cur.log))
        /\ store' = [store EXCEPT !.disputes = @ \cup {DisputeToInsert(cur.log)}]
        /\ EmitAndReturn("DisputeCrowdsourcerContribution")
        /\ UNCHANGED <<outside, snapshot, cur, pc, local, pending, prev>>
     \/ Throw("StoreError")

processDisputeCrowdsourcerContributionLogRemoval ==
  /\ Running("DisputeCrowdsourcerContribution", "Removal", 0)
  /\ \/ /\ store' = [store EXCEPT !.disputes = DeleteByLogKey(@, cur.log)]
        /\ EmitAndReturn("DisputeCrowdsourcerContribution")
        /\ UNCHANGED <<outside, snapshot, cur, pc, local, pending, prev>>
     \/ Throw("StoreError")

processDisputeCrowdsourcerCompletedLog ==
  /\ Running("DisputeCrowdsourcerCompleted", "Forward", 0)
  /\ \/ /\ store' = [store EXCEPT !.crowdsourcers = UpdateCompleted(@, cur.log.disputeCrowdsourcer, 1)]
        /\ EmitAndReturn("DisputeCrowdsourcerCompleted")
        /\ UNCHANGED <<outside, snapshot, cur, pc, local, pending, prev>>
     \/ Throw("StoreError")

processDisputeCrowdsourcerCompletedLogRemoval ==
  /\ Running("DisputeCrowdsourcerCompleted", "Removal", 0)
  /\ \/ /\ store' = [store EXCEPT !.crowdsourcers = UpdateCompleted(@, cur.log.disputeCrowdsourcer, 0)]
        /\ EmitAndReturn("DisputeCrowdsourcerCompleted")
        /\ UNCHANGED <<outside, snapshot, cur, pc, local, pending, prev>>
     \/ Throw("StoreError")

(* ----------------------------- node health ----------------------------- *)

\* timers created so far
MonitorsCreated == {k \in MonitorIds : errorCallbacks[k] # "unset"}

\* clearInterval(monitorEthereumNodeHealthId): clears the timer the module-level
\* variable names now; clearing a cleared timer or no timer does nothing
clearInterval(timers, id) == timers \ {id}

\* monitorEthereumNodeHealth(augur, errorCallback): lines 10-25
monitorEthereumNodeHealth ==
  \E errorCallback \in {"function", "undefined"} :
    LET id == Cardinality(MonitorsCreated) + 1
    IN  /\ id \in MonitorIds
        /\ intervals' = clearInterval(intervals, monitorEthereumNodeHealthId) \cup {id}
        /\ monitorEthereumNodeHealthId' = id
        /\ errorCallbacks' = [errorCallbacks EXCEPT ![id] = errorCallback]
        /\ UNCHANGED <<projectionVars, positionVars, getControllerCalls, errorCallbackCalls>>

\* the interval of timer k fires (line 14): getController is called (line 15)
\* and its reply is awaited
IntervalFires ==
  \E k \in intervals :
    /\ getControllerCalls[k] < MaxInFlight
    /\ getControllerCalls' = [getControllerCalls EXCEPT ![k] = @ + 1]
    /\ UNCHANGED <<projectionVars, positionVars, monitorEthereumNodeHealthId, intervals, errorCallbacks,
                   errorCallbackCalls>>

\* how often the reply callback of lines 15-24 invokes errorCallback: once in
\* the err branch (line 18) and once in the mismatch branch (line 22)
ErrorCallbackInvocations(err, universeController) ==
  (IF err THEN 1 ELSE 0) + (IF universeController # Controller THEN 1 ELSE 0)

\* the reply to a getController call of timer k arrives: lines 15-24
getControllerReply ==
  \E k \in MonitorIds, err \in BOOLEAN, universeController \in UniverseControllers :
    /\ getControllerCalls[k] > 0
    /\ getControllerCalls' = [getControllerCalls EXCEPT ![k] = @ - 1]
    /\ intervals' = IF ErrorCallbackInvocations(err, universeController) > 0
                      THEN clearInterval(intervals, monitorEthereumNodeHealthId)
                      ELSE intervals
    /\ errorCallbackCalls' =
         IF errorCallbacks[k] = "function"
           THEN [errorCallbackCalls EXCEPT ![k] = @ + ErrorCallbackInvocations(err, universeController)]
           ELSE errorCallbackCalls
    /\ UNCHANGED <<projectionVars, positionVars, monitorEthereumNodeHealthId, errorCallbacks>>

NextMonitor ==
  \/ monitorEthereumNodeHealth
  \/ IntervalFires
  \/ getControllerReply

SpecMonitor == InitOrdersOpen /\ [][NextMonitor]_vars

(* -------------------------- trading positions -------------------------- *)

\* lines 181-194: the position of one outcome, from its last ProfitLossResult
TradingPosition(marketId, lastProfit) ==
  LET totalPosition == lastProfit.position + lastProfit.numEscrowed
  IN  [marketId |-> marketId, outcome |-> lastProfit.outcome, netPosition |-> totalPosition,
       totalPosition |-> totalPosition, position |-> lastProfit.position,
       numEscrowed |-> lastProfit.numEscrowed]

\* _.sortBy(outcomes, "outcome")
SortByOutcome(outcomes) == SortSeq(outcomes, LAMBDA x, y : x.outcome < y.outcome)

\* _.findIndex(_.zip(sortedOutcomes, _.range(numOutcomes)), ...): the first index
\* that has no position or a position of another outcome; -1 when there is none
FindMissingOutcome(sortedOutcomes, numOutcomes) ==
  LET len == IF Len(sortedOutcomes) > numOutcomes THEN Len(sortedOutcomes) ELSE numOutcomes
      found == {i \in 0..(len - 1) :
                  \/ i >= Len(sortedOutcomes)
                  \/ i >= numOutcomes
                  \/ sortedOutcomes[i + 1].outcome # i}
  IN  IF found = {} THEN 0 - 1 ELSE CHOOSE i \in found : \A j \in found : i <= j

\* lines 225-238: the entry pushed for the missing outcome
MissingOutcomePosition(marketId, missingOutcome) ==
  [marketId |-> marketId, outcome |-> missingOutcome, netPosition |-> ZERO,
   totalPosition |-> ZERO, position |-> ZERO, numEscrowed |-> ZERO]

\* BigNumber.minimum(...values)
Minimum(values) ==
  IF Len(values) = 0 THEN NaN
  ELSE CHOOSE v \in {values[i] : i \in 1..Len(values)} : \A i \in 1..Len(values) : v <= values[i]

Minus(x, y) == IF x = NaN \/ y = NaN THEN NaN ELSE x - y

Negated(x) == IF x = NaN THEN NaN ELSE 0 - x

Map(f(_), seq) == [i \in 1..Len(seq) |-> f(seq[i])]

\* sumProfitLossResults(left, right) of ./get-profit-loss, on the fields kept
\* here: a copy of left whose position is the sum; left alone without a right
sumProfitLossResults(left, rights) ==
  IF Len(rights) = 0 THEN left ELSE [left EXCEPT !.position = @ + rights[1].position]

\* lines 204-258: the positions of one market
NetPositions(outcomes, marketId, numOutcomes, marketType) ==
  LET sortedOutcomes == SortByOutcome(outcomes)
      heldWithZeroPosition == SelectSeq(outcomes, LAMBDA o : o.totalPosition = ZERO)
      isMissingOneOutcome == numOutcomes = Len(sortedOutcomes) + 1
      hasOneZeroPosition == Len(heldWithZeroPosition) = 1
      outcomesWithZeroPosition ==
        IF isMissingOneOutcome
          THEN Append(heldWithZeroPosition,
                      MissingOutcomePosition(marketId, FindMissingOutcome(sortedOutcomes, numOutcomes)))
          ELSE heldWithZeroPosition
      nonZeroPositionOutcomePls == SelectSeq(sortedOutcomes, LAMBDA o : o.position # ZERO)
      minimumPosition == Minimum(Map(LAMBDA o : o.totalPosition, nonZeroPositionOutcomePls))
      adjustedOutcomePls ==
        Map(LAMBDA o : [o EXCEPT !.netPosition = Minus(o.totalPosition, minimumPosition)],
            nonZeroPositionOutcomePls)
      shortOutcome == [outcomesWithZeroPosition[1] EXCEPT !.netPosition = Negated(minimumPosition)]
  IN  IF (isMissingOneOutcome /\ hasOneZeroPosition) \/ (~isMissingOneOutcome /\ ~hasOneZeroPosition)
        THEN sortedOutcomes
      ELSE IF outcomesWithZeroPosition[1].outcome = 0
        THEN sortedOutcomes
      ELSE IF marketType = "categorical"
        THEN adjustedOutcomePls \o <<shortOutcome>>
      ELSE IF shortOutcome.outcome = 1
        THEN <<[sumProfitLossResults(shortOutcome, adjustedOutcomePls)
                  EXCEPT !.position = shortOutcome.position]>>
      ELSE nonZeroPositionOutcomePls

\* getUserTradingPositions(db, augur, params), lines 178-265, for one market
getUserTradingPositions ==
  /\ ~returned
  /\ returned' = TRUE
  /\ positions' =
       IF profitsPerMarket = <<>> THEN <<>>
       ELSE LET all == NetPositions(Map(LAMBDA p : TradingPosition("m1", p), profitsPerMarket),
                                    "m1", numOutcomesByMarket, marketTypesByMarket)
            IN  IF params.outcome = NoOutcome THEN all
                ELSE SelectSeq(all, LAMBDA o : o.outcome = params.outcome)
  /\ UNCHANGED <<projectionVars, monitorVars, params, profitsPerMarket, numOutcomesByMarket,
                 marketTypesByMarket>>

\* the rows of one account in one market: at most one per outcome, in any order
HeldOutcomes(numOutcomes) ==
  {seq \in UNION {[1..n -> {p \in ProfitLossResults : p.outcome < numOutcomes}] : n \in 0..numOutcomes} :
     \A i \in 1..Len(seq), j \in 1..Len(seq) : i # j => seq[i].outcome # seq[j].outcome}

InitQuery ==
  /\ InitProjection
  /\ \A o \in DOMAIN store.orders : store.orders[o].orderState = OrderState.OPEN
  /\ MonitorInit
  /\ numOutcomesByMarket \in 2..MaxOutcomes
  /\ marketTypesByMarket \in MarketTypes
  /\ profitsPerMarket \in HeldOutcomes(numOutcomesByMarket)
  /\ params \in [outcome : {NoOutcome, 1}]
  /\ positions = <<>>
  /\ returned = FALSE

NextPositions == getUserTradingPositions

SpecPositions == InitQuery /\ [][NextPositions]_vars

(* ----------------------------- specifications -------------------------- *)

BeginOrderCanceled ==
  \E d \in {"Forward", "Removal"}, l \in OrderCanceledLogs : Begin("OrderCanceled", d, l)

NextOrders ==
  \/ BeginOrderCanceled
  \/ processOrderCanceledLog
  \/ processOrderCanceledLogRemoval
  \/ Commit
  \/ Abort

SpecOrders == Init /\ [][NextOrders]_vars

BeginCompleteSets ==
  \E d \in {"Forward", "Removal"}, l \in CompleteSetsLogs : Begin("CompleteSets", d, l)

NextCompleteSets ==
  \/ BeginCompleteSets
  \/ processCompleteSetsPurchasedOrSoldLog
  \/ processCompleteSetsPurchasedOrSoldLogRemoval
  \/ updateOpenInterestUnawaited
  \/ Commit
  \/ Abort

SpecCompleteSets == InitOrdersOpen /\ [][NextCompleteSets]_vars

BeginInitialReporterRedeemed ==
  \E d \in {"Forward", "Removal"}, l \in InitialReporterRedeemedLogs :
    Begin("InitialReporterRedeemed", d, l)

NextReports ==
  \/ BeginInitialReporterRedeemed
  \/ processInitialReporterRedeemedLog
  \/ processInitialReporterRedeemedLogRemoval
  \/ Commit
  \/ Abort

SpecReports == InitOrdersOpen /\ [][NextReports]_vars

BeginDispute ==
  \E d \in {"Forward", "Removal"} :
    \/ \E l \in DisputeCrowdsourcerCreatedLogs : Begin("DisputeCrowdsourcerCreated", d, l)
    \/ \E l \in DisputeCrowdsourcerContributionLogs : Begin("DisputeCrowdsourcerContribution", d, l)
    \/ \E l \in DisputeCrowdsourcerCompletedLogs : Begin("DisputeCrowdsourcerCompleted", d, l)

NextDisputes ==
  \/ BeginDispute
  \/ processDisputeCrowdsourcerCreatedLog
  \/ processDisputeCrowdsourcerCreatedLogRemoval
  \/ processDisputeCrowdsourcerContributionLog
  \/ processDisputeCrowdsourcerContributionLogRemoval
  \/ processDisputeCrowdsourcerCompletedLog
  \/ processDisputeCrowdsourcerCompletedLogRemoval
  \/ Commit
  \/ Abort

SpecDisputes == InitOrdersOpen /\ [][NextDisputes]_vars

\* the two append-only tables whose rows are keyed by (transactionHash, logIndex),
\* with several logs on one parent: contributions to one crowdsourcer and
\* complete-set logs of one amount, so that they differ in their key only
OneAmountCompleteSetsLogs ==
  {l \in CompleteSetsLogs : l.numCompleteSets = 5}

BeginKeyedRows ==
  \E d \in {"Forward", "Removal"} :
    \/ \E l \in DisputeCrowdsourcerContributionLogs : Begin("DisputeCrowdsourcerContribution", d, l)
    \/ \E l \in OneAmountCompleteSetsLogs : Begin("CompleteSets", d, l)

NextKeyedRows ==
  \/ BeginKeyedRows
  \/ processDisputeCrowdsourcerContributionLog
  \/ processDisputeCrowdsourcerContributionLogRemoval
  \/ processCompleteSetsPurchasedOrSoldLog
  \/ processCompleteSetsPurchasedOrSoldLogRemoval
  \/ updateOpenInterestUnawaited
  \/ Commit
  \/ Abort

SpecKeyedRows == InitOrdersOpen /\ [][NextKeyedRows]_vars

\* the whole projection; the four groups of handlers write disjoint tables, and
\* each group is checked in its own specification above
Next ==
  \/ NextOrders
  \/ NextCompleteSets
  \/ NextReports
  \/ NextDisputes
  \/ NextMonitor
  \/ NextPositions

Spec == Init /\ [][Next]_vars

(* ======================================================================= *)
(* Properties                                                              *)
(* ======================================================================= *)

\* the current log has been processed to the end: committed or rolled back
Processed(h, d) == phase = "idle" /\ cur.handler = h /\ cur.dir = d

\* the current log is a Removal that succeeded right after the Forward of the
\* same log succeeded
RevertedAfterApply ==
  /\ phase = "idle"
  /\ cur.dir = "Removal"
  /\ result = "ok"
  /\ prev.cur.handler = cur.handler
  /\ prev.cur.log = cur.log
  /\ prev.cur.dir = "Forward"
  /\ prev.result = "ok"

\* C1: a Forward followed by the Removal of the same log leaves every table as
\* it was before the Forward.
C1_RoundTripRestoresStore == RevertedAfterApply => store = prev.pre

\* C2: once a complete-sets handler has returned successfully, every market's
\* open interest is the sum of numCompleteSets over its completeSets rows.
C2_OpenInterestIsSumOnReturn ==
  (phase # "running" /\ cur.handler = "CompleteSets" /\ result = "ok")
    => \A m \in DOMAIN store.openInterest : store.openInterest[m] = OpenInterestOf(store, m)

\* C3: the same Forward log applied a second time, the first having changed the
\* store and no Removal in between, is rejected and adds nothing to the store.
C3_SecondApplyRejected ==
  (phase = "idle" /\ cur.dir = "Forward" /\ prev.cur = cur /\ prev.result = "ok"
     /\ prev.pre # snapshot)
    => (result # "ok" /\ store = snapshot)

\* the order a cancellation log names is CANCELED by that very log
CanceledByLog(st, log) ==
  /\ log.orderId \in DOMAIN st.orders
  /\ st.orders[log.orderId].orderState = OrderState.CANCELED
  /\ \E r \in st.orders_canceled :
       r.orderId = log.orderId /\ r.transactionHash = log.transactionHash
       /\ r.logIndex = log.logIndex

\* C4: processOrderCanceledLogRemoval on an order that is not CANCELED by the
\* log being removed fails and leaves orders and orders_canceled unchanged.
C4_RemovalPreconditionEnforced ==
  (Processed("OrderCanceled", "Removal") /\ ~CanceledByLog(snapshot, cur.log))
    => (result # "ok" /\ store = snapshot)

\* C5: an event is published for a log only once the log's handler has
\* succeeded and its transaction has committed.
C5_PublishedOnlyAfterCommit ==
  emitted # <<>> => (phase = "idle" /\ result = "ok")

\* C6: when the open-interest recomputation a complete-sets handler triggered
\* has failed (it has settled and the aggregate is not the sum of the rows), the
\* handler's insert or delete is not visible.
C6_FailedRecomputeLeavesNoMutation ==
  (/\ phase = "idle"
   /\ cur.handler = "CompleteSets"
   /\ cur.log.market \in DOMAIN store.openInterest
   /\ cur.log.market \notin pending
   /\ store.openInterest[cur.log.market] # OpenInterestOf(store, cur.log.market))
    => store.completeSets = snapshot.completeSets

\* log position a is later in the chain than position b
Newer(a, b) ==
  \/ a.blockNumber > b.blockNumber
  \/ a.blockNumber = b.blockNumber /\ a.logIndex > b.logIndex

\* the crowdsourcer the log created is in the store and a newer applied log
\* still refers to it: a contribution row, or its completion
NewerLogStillApplied(st, log) ==
  \E c \in st.crowdsourcers :
    /\ c.crowdsourcerID = log.disputeCrowdsourcer
    /\ c.transactionHash = log.transactionHash
    /\ c.logIndex = log.logIndex
    /\ \/ c.completed = 1
       \/ \E d \in st.disputes : d.crowdsourcerID = c.crowdsourcerID /\ Newer(d, log)

\* C7: the Removal of a crowdsourcer's creation while a newer log for that
\* crowdsourcer is still applied is rejected and leaves the store unchanged.
C7_OutOfOrderRemovalRejected ==
  (Processed("DisputeCrowdsourcerCreated", "Removal") /\ NewerLogStillApplied(snapshot, cur.log))
    => (result # "ok" /\ store = snapshot)

\* C8: after processOrderCanceledLog and then processOrderCanceledLogRemoval
\* with the same log, the order's state is the state it had before the Forward.
C8_ExactPriorOrderState ==
  (RevertedAfterApply /\ cur.handler = "OrderCanceled" /\ cur.log.orderId \in DOMAIN store.orders)
    => store.orders[cur.log.orderId].orderState = prev.pre.orders[cur.log.orderId].orderState

\* the one event a cancellation handler published: OrderCanceled, labelled buy
\* exactly for orderType "0", carrying the order's marketId, outcome and price
OneOrderCanceledEvent(log, order) ==
  /\ Len(emitted) = 1
  /\ emitted[1].name = "OrderCanceled"
  /\ emitted[1].payload.orderType = "buy" <=> log.orderType = "0"
  /\ emitted[1].payload.orderType = "sell" <=> log.orderType # "0"
  /\ emitted[1].payload.orderId = log.orderId
  /\ emitted[1].payload.marketId = order.marketId
  /\ emitted[1].payload.outcome = order.outcome
  /\ emitted[1].payload.price = order.price

\* C9: for an existing order, a successful processOrderCanceledLog leaves the
\* order CANCELED, one more orders_canceled row carrying the log's orderId,
\* transactionHash, logIndex and blockNumber, and one OrderCanceled event; a
\* successful processOrderCanceledLogRemoval leaves the order OPEN, no
\* cancellation record for it, and one OrderCanceled event of the same form.
C9_OrderCanceledEffect ==
  (phase = "idle" /\ cur.handler = "OrderCanceled" /\ result = "ok"
     /\ cur.log.orderId \in DOMAIN snapshot.orders)
    => LET log == cur.log
           order == store.orders[log.orderId]
       IN  /\ OneOrderCanceledEvent(log, snapshot.orders[log.orderId])
           /\ \A o \in DOMAIN store.orders \ {log.orderId} : store.orders[o] = snapshot.orders[o]
           /\ cur.dir = "Forward" =>
                /\ order.orderState = "CANCELED"
                /\ store.orders_canceled =
                     snapshot.orders_canceled \cup
                       {[orderId |-> log.orderId, transactionHash |-> log.transactionHash,
                         logIndex |-> log.logIndex, blockNumber |-> log.blockNumber]}
           /\ cur.dir = "Removal" =>
                /\ order.orderState = "OPEN"
                /\ store.orders_canceled = {r \in snapshot.orders_canceled : r.orderId # log.orderId}

\* C9 witness: a cancellation of an existing buy order was applied and then
\* removed, the removal deleting the record the cancellation had inserted
C9_Witness ==
  /\ RevertedAfterApply
  /\ cur.handler = "OrderCanceled"
  /\ cur.log.orderId \in DOMAIN store.orders
  /\ cur.log.orderType = "0"
  /\ CanceledByLog(snapshot, cur.log)
  /\ store.orders[cur.log.orderId].orderState = "OPEN"

\* C10: the events the Forward and the Removal of the same log publish have the
\* same name and the same payload fields.
C10_SameEventShape ==
  (RevertedAfterApply /\ Len(emitted) = 1 /\ Len(prev.emitted) = 1)
    => /\ emitted[1].name = prev.emitted[1].name
       /\ DOMAIN emitted[1].payload = DOMAIN prev.emitted[1].payload

\* C11: after processDisputeCrowdsourcerCreatedLog reported success there is at
\* most one payout row per (market, payoutNumerators, invalid), and the
\* crowdsourcer row the log inserted carries the id of the payout row of the
\* log's (market, payoutNumerators, invalid), never a missing payoutID.
C11_PayoutFindOrCreate ==
  (Processed("DisputeCrowdsourcerCreated", "Forward") /\ result = "ok")
    => /\ \A p \in store.payouts, q \in store.payouts :
            (p.marketId = q.marketId /\ p.payoutNumerators = q.payoutNumerators
               /\ p.invalid = q.invalid) => p = q
       /\ \A r \in store.crowdsourcers :
            r.crowdsourcerID = cur.log.disputeCrowdsourcer
              => /\ r.payoutID # Undefined
                 /\ \E p \in FindPayout(store.payouts, cur.log) : p.payoutId = r.payoutID

\* the rows of a table other than the one of the log's (transactionHash, logIndex)
RowsOfOtherLogs(rows, log) ==
  {r \in rows : ~(r.transactionHash = log.transactionHash /\ r.logIndex = log.logIndex)}

\* C12: a successful removal of a contribution log (of a complete-set log)
\* deletes from disputes (from completeSets) exactly the rows whose
\* (transactionHash, logIndex) is the removed log's and leaves every other
\* disputes and completeSets row as it was.
C12_ExactKeyRemoval ==
  (phase # "running" /\ result = "ok" /\ cur.dir = "Removal"
     /\ cur.handler \in {"DisputeCrowdsourcerContribution", "CompleteSets"})
    => IF cur.handler = "DisputeCrowdsourcerContribution"
         THEN /\ store.disputes = RowsOfOtherLogs(snapshot.disputes, cur.log)
              /\ store.completeSets = snapshot.completeSets
         ELSE /\ store.completeSets = RowsOfOtherLogs(snapshot.completeSets, cur.log)
              /\ store.disputes = snapshot.disputes

\* C12 witness: two contributions to the same crowdsourcer were applied and the
\* removal of one of them deleted its row and kept the other's
C12_Witness ==
  /\ Processed("DisputeCrowdsourcerContribution", "Removal")
  /\ result = "ok"
  /\ Cardinality({r \in snapshot.disputes : r.crowdsourcerID = cur.log.disputeCrowdsourcer}) = 2
  /\ Cardinality(store.disputes) = 1
  /\ \A r \in store.disputes : r.crowdsourcerID = cur.log.disputeCrowdsourcer

\* the same for complete sets: two logs of one market applied, one removed
C12_WitnessCompleteSets ==
  /\ Processed("CompleteSets", "Removal")
  /\ result = "ok"
  /\ Cardinality({r \in snapshot.completeSets : r.marketId = cur.log.market}) = 2
  /\ Cardinality(store.completeSets) = 1

\* an initial-report handler returns normally in this step
InitialReporterRedeemedReturns ==
  /\ phase = "running"
  /\ cur.handler = "InitialReporterRedeemed"
  /\ phase' = "returned"
  /\ result' = "ok"

\* C13: a step in which processInitialReporterRedeemedLog (...Removal) returns
\* sets the redeemed flag of the market of its log to true (to false), leaves
\* the flag of every other market as it was and publishes exactly one
\* InitialReporterRedeemed event; no other step changes a redeemed flag. So a
\* market's flag is true exactly when the last handler that returned for it
\* was the forward one.
C13_RedeemedFlagFollowsLastHandler ==
  [][ IF InitialReporterRedeemedReturns
        THEN /\ store'.initial_reports[cur.log.market] = (cur.dir = "Forward")
             /\ \A m \in DOMAIN store.initial_reports \ {cur.log.market} :
                  store'.initial_reports[m] = store.initial_reports[m]
             /\ Len(emitted') = 1
             /\ emitted'[1].name = "InitialReporterRedeemed"
        ELSE store'.initial_reports = store.initial_reports ]_vars

\* C13 witness: the forward handler and then the removal handler ran for one
\* market, whose flag is false again, while another market's flag is still true
C13_Witness ==
  /\ RevertedAfterApply
  /\ cur.handler = "InitialReporterRedeemed"
  /\ store.initial_reports[cur.log.market] = FALSE
  /\ \E m \in DOMAIN store.initial_reports : store.initial_reports[m] = TRUE
  /\ Len(emitted) = 1

\* C14: when the markets table has no row for log.market,
\* processCompleteSetsPurchasedOrSoldLog ends with an error, having inserted no
\* completeSets row, changed no open-interest aggregate and published no event.
C14_UnknownMarketFailsCleanly ==
  (phase # "running" /\ cur.handler = "CompleteSets" /\ cur.dir = "Forward"
     /\ cur.log.market \notin DOMAIN MarketsRows)
    => /\ result = "Error"
       /\ emitted = <<>>
       /\ store.completeSets = snapshot.completeSets
       /\ phase = "returned" => store = snapshot

\* C14 witness: a log of an unknown market was processed and rolled back while
\* the completeSets table held a row of an earlier log
C14_Witness ==
  /\ Processed("CompleteSets", "Forward")
  /\ cur.log.market \notin DOMAIN MarketsRows
  /\ result = "Error"
  /\ store.completeSets # {}

\* C15: between two logs, an orders_canceled row exists for an order id if and
\* only if an orders row with that id exists and its state is CANCELED, and
\* there is at most one orders_canceled row per order id.
C15_CanceledRecordMatchesOrderState ==
  phase = "idle"
    => /\ \A o \in OrderIds :
            (\E r \in store.orders_canceled : r.orderId = o)
              <=> (o \in DOMAIN store.orders /\ store.orders[o].orderState = OrderState.CANCELED)
       /\ \A r \in store.orders_canceled, q \in store.orders_canceled :
            r.orderId = q.orderId => r = q

\* C16: between two logs, every disputes row's crowdsourcerID is the id of an
\* existing crowdsourcers row.
C16_DisputesReferToCrowdsourcers ==
  phase = "idle"
    => \A d \in store.disputes :
         \E r \in store.crowdsourcers : r.crowdsourcerID = d.crowdsourcerID

\* C17: a monitor whose poll observed an RPC error or a controller mismatch has
\* invoked its errorCallback exactly once in total, and its interval is cleared.
C17_FailureReportedOnce ==
  \A k \in MonitorIds :
    errorCallbackCalls[k] >= 1 => (errorCallbackCalls[k] = 1 /\ k \notin intervals)

\* C18: at most one interval is active, the latest call's; and a reply to a
\* poll of an earlier call's interval neither clears the latest call's interval
\* nor invokes the latest call's errorCallback.
C18_SingleTimer ==
  [][ /\ intervals' \subseteq {monitorEthereumNodeHealthId'}
      /\ \A k \in MonitorIds :
           (k # monitorEthereumNodeHealthId /\ getControllerCalls'[k] < getControllerCalls[k])
             => /\ monitorEthereumNodeHealthId \in intervals
                     => monitorEthereumNodeHealthId \in intervals'
                /\ errorCallbackCalls'[monitorEthereumNodeHealthId]
                     = errorCallbackCalls[monitorEthereumNodeHealthId] ]_vars

\* the positions the account holds, and the one outcome it has no row for
HeldPositions == {TradingPosition("m1", profitsPerMarket[i]) : i \in 1..Len(profitsPerMarket)}

MissingOutcomes ==
  {o \in 0..(numOutcomesByMarket - 1) : \A h \in HeldPositions : h.outcome # o}

\* C19: when the account has rows for all outcomes of the market but one, the
\* missing outcome is the shorted one: it is returned with netPosition minus
\* the minimum totalPosition of the held non-zero outcomes, every held non-zero
\* outcome is returned with netPosition = totalPosition minus that minimum, and
\* when the missing outcome is outcome 0 the held positions are returned with
\* netPosition = totalPosition; whatever the number of held zero positions.
C19_MissingOutcomeIsShorted ==
  (returned /\ params.outcome = NoOutcome /\ Len(profitsPerMarket) >= 1
     /\ Cardinality(MissingOutcomes) = 1)
    => LET missing == CHOOSE o \in MissingOutcomes : TRUE
           nonZero == {h \in HeldPositions : h.position # ZERO}
           minimum == CHOOSE v \in {h.totalPosition : h \in nonZero} :
                        \A h \in nonZero : v <= h.totalPosition
           Returned == {positions[i] : i \in 1..Len(positions)}
       IN  IF missing = 0
             THEN Returned = HeldPositions
             ELSE nonZero # {}
                    => /\ \E p \in Returned : p.outcome = missing /\ p.netPosition = 0 - minimum
                       /\ \A h \in nonZero :
                            \E p \in Returned :
                              p.outcome = h.outcome /\ p.netPosition = h.totalPosition - minimum

====
